---------------------------- MODULE Spec2Model ----------------------------
(***************************************************************************)
(* Business Model Stress Tester: the LLM-response pipeline of              *)
(* business_model_stress_tester.py (chunking, JSON extraction and repair,  *)
(* the three stages of run_stress_test) and the job store of api.py.       *)
(*                                                                         *)
(* Text is a sequence of tokens.  A token is a TLA+ string standing for a  *)
(* run of characters: one character ("{", "'", " ", "a") or a whole word   *)
(* ("scenarios").  Len(token) is the number of characters it stands for,   *)
(* except for the tokens of RunLength, which stand for long runs.          *)
(*                                                                         *)
(* A JSON value is a record tagged by t: [t |-> "str", v] and               *)
(* [t |-> "num", v] hold the text of a string or a number, [t |-> "arr",   *)
(* items] the elements of an array, [t |-> "obj", members] the members     *)
(* <<[k, val], ...>> of an object in insertion order (a Python dict).      *)
(***************************************************************************)
EXTENDS Integers, Sequences, FiniteSets, TLC

VARIABLES
    jobs,               \* api.py: jobs, job id -> record
    tasks,              \* background tasks added by add_task, per job id
    reports,            \* the files written under reports/
    poll,               \* a get_job_status request in progress
    last_response,      \* the response of the request just served
    observed,           \* per job id, the status its last poll returned
    pc,                 \* run_stress_test: the stage the run is at
    business_model,     \* run_stress_test: its input
    scenarios,          \* run_stress_test: the result of stage 1
    scenario_chunks,    \* analyze_vulnerabilities: the fragments
    chunk_idx,          \* analyze_vulnerabilities: fragments processed
    combined_analysis,  \* analyze_vulnerabilities: the running result
    outcome,            \* run_stress_test: the report, or what it raised
    content,            \* chunk_large_content: its input mapping
    max_tokens,         \* chunk_large_content: its budget
    chunks,             \* chunk_large_content: its result
    gateway_log,        \* run_stress_test: the gateway's answers so far
    embedded_object,    \* the JSON object a response text was built around
    response_text,      \* the raw text handed to the extractor
    extracted           \* the extractor's result

vars == <<jobs, tasks, reports, poll, last_response, observed,
          pc, business_model, scenarios, scenario_chunks, chunk_idx,
          combined_analysis, outcome, gateway_log,
          content, max_tokens, chunks, embedded_object, response_text, extracted>>

----------------------------------------------------------------------------
(* Text *)

\* Body(value), with value computed once: a local variable of the code.
Bind(value, Body(_)) == CHOOSE result \in {Body(local) : local \in {value}} : TRUE

\* Python's str.find(c): the 0-based index of the first c, or -1.
Find(s, c) ==
    IF \E i \in 1..Len(s) : s[i] = c
    THEN (CHOOSE i \in 1..Len(s) : s[i] = c /\ \A j \in 1..(i - 1) : s[j] # c) - 1
    ELSE -1

\* Python's str.rfind(c): the 0-based index of the last c, or -1.
RFind(s, c) ==
    IF \E i \in 1..Len(s) : s[i] = c
    THEN (CHOOSE i \in 1..Len(s) : s[i] = c /\ \A j \in (i + 1)..Len(s) : s[j] # c) - 1
    ELSE -1

\* Python's s[a:b] for 0 <= a, 0 <= b <= len(s).
Slice(s, a, b) == SubSeq(s, a + 1, b)

\* The characters \s matches, and the ones json skips between tokens.
Whitespace == {" ", "\n", "\r", "\t"}

\* Characters that are not \w.  Every other token is a run of \w characters.
\* "BULLET" stands for the one character U+2022.
NonWord ==
    Whitespace \cup {"{", "}", "[", "]", "\"", "'", ":", ",", "-", "*", ".", ")", "BULLET"}

IsWord(c) == c \notin NonWord

Digits == {"0", "1", "2", "3", "4", "5", "6", "7", "8", "9"}

\* Python's str.strip().
RECURSIVE LStrip(_)
LStrip(s) == IF s # <<>> /\ Head(s) \in Whitespace THEN LStrip(Tail(s)) ELSE s

RECURSIVE RStrip(_)
RStrip(s) ==
    IF s # <<>> /\ s[Len(s)] \in Whitespace THEN RStrip(SubSeq(s, 1, Len(s) - 1)) ELSE s

Strip(s) == RStrip(LStrip(s))

\* Tokens standing for runs longer than their name.
RunLength == [t \in {"x3000", "x6000", "BULLET"} |->
                 IF t = "BULLET" THEN 1 ELSE IF t = "x3000" THEN 3000 ELSE 6000]

TokLen(t) == IF t \in DOMAIN RunLength THEN RunLength[t] ELSE Len(t)

RECURSIVE TextLen(_)
TextLen(s) == IF s = <<>> THEN 0 ELSE TokLen(Head(s)) + TextLen(Tail(s))

----------------------------------------------------------------------------
(* JSON values and json.loads *)

Str(s) == [t |-> "str", v |-> s]
Num(s) == [t |-> "num", v |-> s]
Arr(a) == [t |-> "arr", items |-> a]
Obj(m) == [t |-> "obj", members |-> m]

IsDict(x) == x.t = "obj"

Keys(d) == {d.members[i].k : i \in 1..Len(d.members)}

HasKey(d, k) == k \in Keys(d)

\* d[k]
Get(d, k) == (d.members[CHOOSE i \in 1..Len(d.members) : d.members[i].k = k]).val

\* d[k] = val on a members sequence: an existing key keeps its place.
SetMember(m, k, val) ==
    IF \E i \in 1..Len(m) : m[i].k = k
    THEN [i \in 1..Len(m) |-> IF m[i].k = k THEN [k |-> k, val |-> val] ELSE m[i]]
    ELSE Append(m, [k |-> k, val |-> val])

\* dict.update(other) on members sequences.
RECURSIVE UpdateMembers(_, _)
UpdateMembers(m, other) ==
    IF other = <<>> THEN m
    ELSE UpdateMembers(SetMember(m, Head(other).k, Head(other).val), Tail(other))

\* A parse result: the value and the 1-based position after it, or a failure.
Parsed(val, pos) == [ok |-> TRUE, val |-> val, pos |-> pos]
ParseFail(pos) == [ok |-> FALSE, val |-> Str(<<>>), pos |-> pos]

RECURSIVE SkipWs(_, _)
SkipWs(s, i) == IF i <= Len(s) /\ s[i] \in Whitespace THEN SkipWs(s, i + 1) ELSE i

\* s[i] = '"': the string ends at the next '"'; a raw control character in it
\* is an error (strict mode).
ParseString(s, i) ==
    IF \E j \in (i + 1)..Len(s) : s[j] = "\""
    THEN Bind(CHOOSE j \in (i + 1)..Len(s) :
                  s[j] = "\"" /\ \A h \in (i + 1)..(j - 1) : s[h] # "\"",
              LAMBDA j :
                  IF \E h \in (i + 1)..(j - 1) : s[h] \in {"\n", "\r", "\t"}
                  THEN ParseFail(i)
                  ELSE Parsed(Str(SubSeq(s, i + 1, j - 1)), j + 1))
    ELSE ParseFail(i)

RECURSIVE DigitsEnd(_, _)
DigitsEnd(s, i) == IF i <= Len(s) /\ s[i] \in Digits THEN DigitsEnd(s, i + 1) ELSE i

\* s[i] is a digit: an integer literal (no leading zero).
ParseNumber(s, i) ==
    Bind(DigitsEnd(s, i),
         LAMBDA e : IF s[i] = "0" /\ e > i + 1 THEN Parsed(Num(<<"0">>), i + 1)
                    ELSE Parsed(Num(SubSeq(s, i, e - 1)), e))

RECURSIVE ParseValue(_, _), ParseMembers(_, _, _), ParseElements(_, _, _)

\* After a member's value val, whose key is key: '}' ends the object, ','
\* leads to the next member.
AfterMember(s, acc, key, val) ==
    IF ~val.ok THEN val
    ELSE Bind(SkipWs(s, val.pos),
              LAMBDA n :
                  IF n > Len(s) THEN ParseFail(n)
                  ELSE IF s[n] = "}"
                       THEN Parsed(Obj(SetMember(acc, key, val.val)), n + 1)
                  ELSE IF s[n] = ","
                       THEN ParseMembers(s, SkipWs(s, n + 1), SetMember(acc, key, val.val))
                  ELSE ParseFail(n))

\* i is at a member's key, after '{' or ',' and whitespace.
ParseMembers(s, i, acc) ==
    IF i > Len(s) \/ s[i] # "\"" THEN ParseFail(i)
    ELSE Bind(ParseString(s, i),
              LAMBDA key :
                  IF ~key.ok THEN ParseFail(i)
                  ELSE Bind(SkipWs(s, key.pos),
                            LAMBDA c :
                                IF c > Len(s) \/ s[c] # ":" THEN ParseFail(c)
                                ELSE Bind(ParseValue(s, SkipWs(s, c + 1)),
                                          LAMBDA val : AfterMember(s, acc, key.val.v, val))))

\* After an element val: ']' ends the array, ',' leads to the next element.
AfterElement(s, acc, val) ==
    IF ~val.ok THEN val
    ELSE Bind(SkipWs(s, val.pos),
              LAMBDA n :
                  IF n > Len(s) THEN ParseFail(n)
                  ELSE IF s[n] = "]" THEN Parsed(Arr(Append(acc, val.val)), n + 1)
                  ELSE IF s[n] = ","
                       THEN ParseElements(s, SkipWs(s, n + 1), Append(acc, val.val))
                  ELSE ParseFail(n))

\* i is at an element, after '[' or ',' and whitespace.
ParseElements(s, i, acc) ==
    Bind(ParseValue(s, i), LAMBDA val : AfterElement(s, acc, val))

ParseValue(s, i) ==
    IF i > Len(s) THEN ParseFail(i)
    ELSE IF s[i] = "\"" THEN ParseString(s, i)
    ELSE IF s[i] = "{"
         THEN Bind(SkipWs(s, i + 1),
                   LAMBDA n : IF n <= Len(s) /\ s[n] = "}" THEN Parsed(Obj(<<>>), n + 1)
                              ELSE ParseMembers(s, n, <<>>))
    ELSE IF s[i] = "["
         THEN Bind(SkipWs(s, i + 1),
                   LAMBDA n : IF n <= Len(s) /\ s[n] = "]" THEN Parsed(Arr(<<>>), n + 1)
                              ELSE ParseElements(s, n, <<>>))
    ELSE IF s[i] \in Digits THEN ParseNumber(s, i)
    ELSE ParseFail(i)

\* json.loads(s): one value, whitespace around it, nothing after it.
\* ok = FALSE is json.JSONDecodeError.  The values read are objects, arrays,
\* strings without escapes and unsigned integers.
json_loads(s) ==
    Bind(ParseValue(s, SkipWs(s, 1)),
         LAMBDA r : IF r.ok /\ SkipWs(s, r.pos) = Len(s) + 1 THEN r ELSE ParseFail(r.pos))

----------------------------------------------------------------------------
(* _clean_json_response *)

\* An exception message, str(e), is a text.
Returned(value) == [raised |-> FALSE, value |-> value, error |-> <<>>]
Raised(error) == [raised |-> TRUE, value |-> <<>>, error |-> error]

\* re.sub(r'[\n\r\t]', ' ', s)
ReplaceControl(s) ==
    [i \in 1..Len(s) |-> IF s[i] \in {"\n", "\r", "\t"} THEN " " ELSE s[i]]

\* re.sub(r'\s+', ' ', s)
RECURSIVE NormalizeWhitespace(_)
NormalizeWhitespace(s) ==
    IF s = <<>> THEN <<>>
    ELSE IF Head(s) \in Whitespace
         THEN <<" ">> \o NormalizeWhitespace(LStrip(s))
         ELSE <<Head(s)>> \o NormalizeWhitespace(Tail(s))

\* s.replace("'", '"')
ReplaceSingleQuotes(s) == [i \in 1..Len(s) |-> IF s[i] = "'" THEN "\"" ELSE s[i]]

RECURSIVE WordEnd(_, _)
WordEnd(s, i) == IF i <= Len(s) /\ IsWord(s[i]) THEN WordEnd(s, i + 1) ELSE i

\* re.sub(r'(\w+):', r'"\1":', s) from position i on: every maximal run of \w
\* that a ':' follows is put in double quotes.
RECURSIVE QuoteKeys(_, _)
QuoteKeys(s, i) ==
    IF i > Len(s) THEN <<>>
    ELSE IF IsWord(s[i])
         THEN LET e == WordEnd(s, i)
              IN  IF e <= Len(s) /\ s[e] = ":"
                  THEN <<"\"">> \o SubSeq(s, i, e - 1) \o <<"\"", ":">> \o QuoteKeys(s, e + 1)
                  ELSE SubSeq(s, i, e - 1) \o QuoteKeys(s, e)
         ELSE <<s[i]>> \o QuoteKeys(s, i + 1)

\* The repair pass, lines 320-323.
Repair(json_content) ==
    QuoteKeys(ReplaceSingleQuotes(NormalizeWhitespace(ReplaceControl(json_content))), 1)

\* Lines 324-329: json.loads as the check of the repaired text.
Validate(json_content) ==
    IF json_loads(json_content).ok
    THEN Returned(json_content)
    ELSE Raised(<<"Invalid JSON response: ", "JSONDecodeError">>)

\* Lines 313-318: the span from the first '{' to the last '}'.
JsonSpan(text, json_start, json_end) ==
    IF json_start >= 0 /\ json_end > json_start
    THEN Validate(Repair(Slice(text, json_start, json_end)))
    ELSE Raised(<<"No valid JSON found in response">>)

_clean_json_response(text) == JsonSpan(text, Find(text, "{"), RFind(text, "}") + 1)

\* Lines 294-295: the repaired text, parsed; or the ValueError.
ExtractJson(text) ==
    Bind(_clean_json_response(text),
         LAMBDA json_content :
             IF json_content.raised THEN json_content
             ELSE Returned(json_loads(json_content.value).val))

----------------------------------------------------------------------------
(* chunk_large_content *)

\* len(repr(s)) of a str: the quotes, an escaped control character counts
\* two, and so does a "'" when the string holds both kinds of quote.
RECURSIVE EscapedLen(_, _)
EscapedLen(s, both) ==
    IF s = <<>> THEN 0
    ELSE (IF Head(s) \in {"\n", "\r", "\t"} \/ (both /\ Head(s) = "'")
          THEN 2 ELSE TokLen(Head(s)))
         + EscapedLen(Tail(s), both)

StrReprLen(s) ==
    2 + EscapedLen(s, (\E i \in 1..Len(s) : s[i] = "'") /\ (\E i \in 1..Len(s) : s[i] = "\""))

RECURSIVE ReprLen(_), ElementsReprLen(_), MembersReprLen(_)

\* ", ".join(repr(e) for e in a)
ElementsReprLen(a) ==
    IF a = <<>> THEN 0
    ELSE ReprLen(Head(a)) + (IF Len(a) > 1 THEN 2 ELSE 0) + ElementsReprLen(Tail(a))

\* ", ".join(repr(k) + ": " + repr(v) for k, v in m)
MembersReprLen(m) ==
    IF m = <<>> THEN 0
    ELSE StrReprLen(Head(m).k) + 2 + ReprLen(Head(m).val)
         + (IF Len(m) > 1 THEN 2 ELSE 0) + MembersReprLen(Tail(m))

\* len(repr(value))
ReprLen(value) ==
    IF value.t = "str" THEN StrReprLen(value.v)
    ELSE IF value.t = "num" THEN TextLen(value.v)
    ELSE IF value.t = "arr" THEN 2 + ElementsReprLen(value.items)
    ELSE 2 + MembersReprLen(value.members)

\* len(str(value)): a str is its own text, anything else its repr.
StrLen(value) == IF value.t = "str" THEN TextLen(value.v) ELSE ReprLen(value)

\* ChunkLoop with a fault: the key that closes a chunk is not carried into
\* the chunk opened after it.
RECURSIVE ChunkLoopDropsKey(_, _, _, _, _)
ChunkLoopDropsKey(items, limit, out, current_chunk, current_size) ==
    IF items = <<>>
    THEN IF current_chunk # <<>> THEN Append(out, Obj(current_chunk)) ELSE out
    ELSE LET key == Head(items).k
             value == Head(items).val
             value_size == StrLen(value) \div 4
         IN  IF current_size + value_size > limit
             THEN ChunkLoopDropsKey(Tail(items), limit, Append(out, Obj(current_chunk)),
                                    <<>>, 0)
             ELSE ChunkLoopDropsKey(Tail(items), limit, out,
                                    SetMember(current_chunk, key, value),
                                    current_size + value_size)

\* The loop of lines 426-434 over the members left, and the flush of 436-437.
\* out: chunks so far; current_chunk: members of the open chunk.
RECURSIVE ChunkLoop(_, _, _, _, _)
ChunkLoop(items, limit, out, current_chunk, current_size) ==
    IF items = <<>>
    THEN IF current_chunk # <<>> THEN Append(out, Obj(current_chunk)) ELSE out
    ELSE LET key == Head(items).k
             value == Head(items).val
             value_size == StrLen(value) \div 4
         IN  IF current_size + value_size > limit
             THEN ChunkLoop(Tail(items), limit, Append(out, Obj(current_chunk)),
                            SetMember(<<>>, key, value), value_size)
             ELSE ChunkLoop(Tail(items), limit, out,
                            SetMember(current_chunk, key, value),
                            current_size + value_size)

\* chunk_large_content(content, max_tokens): the list of chunks.
chunk_large_content(mapping, limit) == ChunkLoop(mapping.members, limit, <<>>, <<>>, 0)

DefaultMaxTokens == 1500

----------------------------------------------------------------------------
(* _make_request: the gateway *)

\* What requests.post, raise_for_status and response.json() can give: a
\* transport or HTTP failure, a body without 'choices', or a body whose
\* choices[0].message.content is a text.
GatewayError(cause) == [kind |-> "error", cause |-> cause, text |-> <<>>]
NoChoices == [kind |-> "nochoices", cause |-> "", text |-> <<>>]
Completion(text) == [kind |-> "content", cause |-> "", text |-> text]

\* Line 107: the message of the ValueError, with str(e) of the cause.
RequestFailed(gw) == <<"OpenRouter API request failed: ", gw.cause>>

\* _make_request: the response body, or ValueError.
_make_request(gw) ==
    IF gw.kind = "error" THEN Raised(RequestFailed(gw)) ELSE Returned(gw)

\* response['choices'][0]['message']['content']: the text, or KeyError.
ResponseContent(response) ==
    IF response.kind = "nochoices" THEN Raised(<<"'choices'">>)
    ELSE Returned(response.text)

----------------------------------------------------------------------------
(* generate_scenarios *)

\* Words joined by single spaces.
RECURSIVE Phrase(_)
Phrase(words) ==
    IF Len(words) <= 1 THEN words
    ELSE <<Head(words), " ">> \o Phrase(Tail(words))

Category(name, first, second) ==
    [k |-> <<name>>, val |-> Arr(<<Str(first), Str(second)>>)]

\* Lines 168-189: the default structure, with the model's industry.
DefaultScenarios(industry) ==
    Obj(<<
        Category("market_conditions",
                 Phrase(<<"Economic", "downturn", "affecting">>) \o <<" ">> \o industry,
                 Phrase(<<"Market", "saturation", "and", "increased", "competition">>)),
        Category("competitor_moves",
                 Phrase(<<"New", "competitor", "entry", "with", "innovative", "solution">>),
                 Phrase(<<"Price", "war", "initiated", "by", "major", "competitor">>)),
        Category("supply_chain",
                 Phrase(<<"Supply", "chain", "disruption">>),
                 Phrase(<<"Raw", "material", "cost", "increase">>)),
        Category("regulatory",
                 Phrase(<<"New", "regulations", "in">>) \o <<" ">> \o industry,
                 Phrase(<<"Changes", "in", "compliance", "requirements">>)),
        Category("technology",
                 Phrase(<<"Disruptive", "technology", "emergence">>),
                 Phrase(<<"Legacy", "system", "obsolescence">>))
    >>)

\* Lines 194-200: the structure returned from the except clause.
BasicScenarios ==
    Obj(<<
        Category("market_conditions", Phrase(<<"Market", "downturn">>),
                 Phrase(<<"Competition", "increase">>)),
        Category("competitor_moves", Phrase(<<"New", "market", "entry">>),
                 Phrase(<<"Price", "competition">>)),
        Category("supply_chain", Phrase(<<"Supply", "disruption">>),
                 Phrase(<<"Cost", "increase">>)),
        Category("regulatory", Phrase(<<"New", "regulations">>),
                 Phrase(<<"Policy", "changes">>)),
        Category("technology", Phrase(<<"Tech", "disruption">>),
                 Phrase(<<"Innovation", "pressure">>))
    >>)

\* Lines 159-189: the span parsed as it is; json.JSONDecodeError is caught
\* (line 164) and falls through to the default structure.
ParseScenarios(model, parsed) ==
    IF parsed.ok
    THEN IF IsDict(parsed.val) THEN Returned(parsed.val)
         ELSE Raised(<<"Response is not a dictionary">>)
    ELSE Returned(DefaultScenarios(model.industry))

\* Lines 154-189 on the content of the response.
ScenariosOfText(model, text, json_start, json_end) ==
    IF json_start >= 0 /\ json_end > json_start
    THEN ParseScenarios(model, json_loads(Strip(Slice(text, json_start, json_end))))
    ELSE Returned(DefaultScenarios(model.industry))

\* Lines 145-189, the body of the try: the scenarios returned, or the
\* exception raised.
ScenariosTry(model, gw) ==
    Bind(_make_request(gw),
         LAMBDA response :
             IF response.raised THEN response
             ELSE IF response.value.kind = "nochoices"
                  THEN Raised(<<"Invalid response structure from API">>)
             ELSE ScenariosOfText(model, response.value.text,
                                  Find(response.value.text, "{"),
                                  RFind(response.value.text, "}") + 1))

\* Lines 144-200: except Exception (line 191) returns BasicScenarios.
generate_scenarios(model, gw) ==
    Bind(ScenariosTry(model, gw),
         LAMBDA r : IF r.raised THEN Returned(BasicScenarios) ELSE r)

----------------------------------------------------------------------------
(* _parse_scenarios_from_text *)

\* text.split('\n')
RECURSIVE SplitLines(_)
SplitLines(text) ==
    LET n == Find(text, "\n")
    IN  IF n < 0 THEN <<text>>
        ELSE <<Slice(text, 0, n)>> \o SplitLines(Slice(text, n + 1, Len(text)))

\* Line 212: the six category names, and their upper-case forms.
categories == <<
    <<"Market", " ", "Conditions">>,
    <<"Competitor", " ", "Moves">>,
    <<"Supply", " ", "Chain", " ", "Disruptions">>,
    <<"Regulatory", " ", "Changes">>,
    <<"Technology", " ", "Shifts">>,
    <<"Consumer", " ", "Behavior", " ", "Changes">> >>

categories_upper == <<
    <<"MARKET", " ", "CONDITIONS">>,
    <<"COMPETITOR", " ", "MOVES">>,
    <<"SUPPLY", " ", "CHAIN", " ", "DISRUPTIONS">>,
    <<"REGULATORY", " ", "CHANGES">>,
    <<"TECHNOLOGY", " ", "SHIFTS">>,
    <<"CONSUMER", " ", "BEHAVIOR", " ", "CHANGES">> >>

\* sub in line
Contains(line, sub) ==
    \E i \in 0..(Len(line) - Len(sub)) : SubSeq(line, i + 1, i + Len(sub)) = sub

\* Lines 230-234: the first category the line names, or 0.
HeaderOf(line) ==
    IF \E c \in 1..Len(categories) :
           Contains(line, categories[c]) \/ Contains(line, categories_upper[c])
    THEN CHOOSE c \in 1..Len(categories) :
           /\ Contains(line, categories[c]) \/ Contains(line, categories_upper[c])
           /\ \A d \in 1..(c - 1) :
                  ~(Contains(line, categories[d]) \/ Contains(line, categories_upper[d]))
    ELSE 0

\* Lines 224-241 over the lines left.  current_category is an index into
\* categories, 0 for None.  line[1] of a one-character line raises IndexError.
RECURSIVE ParseLines(_, _, _)
ParseLines(lines, result, current_category) ==
    IF lines = <<>> THEN Returned(Obj(result))
    ELSE LET line == Strip(Head(lines))
             header == IF line = <<>> THEN 0 ELSE HeaderOf(line)
             category == IF header # 0 THEN header ELSE current_category
             opened == IF header # 0
                       THEN SetMember(result, categories[header], Arr(<<>>))
                       ELSE result
         IN  IF line = <<>> THEN ParseLines(Tail(lines), result, current_category)
             ELSE IF category = 0 THEN ParseLines(Tail(lines), opened, category)
             ELSE IF Head(line) \in {"-", "BULLET", "*"}
                     \/ (Head(line) \in Digits /\ Len(line) > 1
                         /\ line[2] \in {".", ")", ":"})
                  THEN LET scenario ==
                               IF Find(line, " ") >= 0
                               THEN Slice(line, Find(line, " ") + 1, Len(line))
                               ELSE line
                           key == categories[category]
                           list == (CHOOSE m \in {opened[i] : i \in 1..Len(opened)} :
                                        m.k = key).val.items
                       IN  ParseLines(Tail(lines),
                                      SetMember(opened, key, Arr(Append(list, Str(scenario)))),
                                      category)
             ELSE IF Head(line) \in Digits /\ Len(line) = 1
                  THEN Raised(<<"string index out of range">>)
             ELSE ParseLines(Tail(lines), opened, category)

_parse_scenarios_from_text(text) == ParseLines(SplitLines(text), <<>>, 0)

----------------------------------------------------------------------------
(* analyze_vulnerabilities *)

\* Lines 251-254.  "errors" is a key only once a chunk has failed.
EmptyAnalysis == [summary |-> <<>>, scenarios |-> <<>>]

\* combined_analysis["scenarios"].update(value), line 299.  A dict merges
\* key by key at the top level; an int is not iterable; a non-empty str or
\* list is a sequence of elements that are not pairs (lists of pairs are not
\* among the responses), an empty one updates nothing.
UpdateScenarios(members, value) ==
    IF value.t = "obj" THEN Returned(UpdateMembers(members, value.members))
    ELSE IF value.t = "num" THEN Raised(<<"'int' object is not iterable">>)
    ELSE IF (IF value.t = "arr" THEN value.items ELSE value.v) = <<>> THEN Returned(members)
    ELSE Raised(<<"dictionary update sequence element #0 has length 1; 2 is required">>)

\* Lines 298-301: the merge of one chunk's analysis into the combined one.
MergeChunk(analysis, chunk_analysis) ==
    Bind(IF HasKey(chunk_analysis, <<"scenarios">>)
         THEN UpdateScenarios(analysis.scenarios, Get(chunk_analysis, <<"scenarios">>))
         ELSE Returned(analysis.scenarios),
         LAMBDA merged :
             IF merged.raised THEN merged
             ELSE Returned([analysis EXCEPT
                     !.scenarios = merged.value,
                     !.summary = IF HasKey(chunk_analysis, <<"chunk_summary">>)
                                 THEN Append(@, Get(chunk_analysis, <<"chunk_summary">>))
                                 ELSE @]))

\* Lines 286-301, the body of the try for one chunk: the analysis after the
\* merge, or the exception raised.
ChunkTry(analysis, gw) ==
    Bind(_make_request(gw),
         LAMBDA response :
             IF response.raised THEN response
             ELSE Bind(ResponseContent(response.value),
                       LAMBDA text :
                           IF text.raised THEN text
                           ELSE Bind(ExtractJson(text.value),
                                     LAMBDA chunk_analysis :
                                         IF chunk_analysis.raised THEN chunk_analysis
                                         ELSE MergeChunk(analysis, chunk_analysis.value))))

\* RecordError with a fault: the message replaces the list instead of being
\* appended to it.
RecordErrorOverwrites(analysis, error) ==
    [key \in DOMAIN analysis \cup {"errors"} |->
        IF key = "errors" THEN <<error>> ELSE analysis[key]]

\* Lines 303-306: the except clause appends str(e) to "errors".
RecordError(analysis, error) ==
    [key \in DOMAIN analysis \cup {"errors"} |->
        IF key = "errors"
        THEN Append(IF "errors" \in DOMAIN analysis THEN analysis.errors ELSE <<>>, error)
        ELSE analysis[key]]

\* Lines 284-306: one pass of the loop body.  except Exception catches
\* whatever the try raised.
AnalyzeChunk(analysis, gw) ==
    Bind(ChunkTry(analysis, gw),
         LAMBDA r : IF r.raised THEN Returned(RecordError(analysis, r.error)) ELSE r)

\* Lines 256-308 with the gateway's answers gws[1], gws[2], ... in order.
RECURSIVE AnalyzeChunks(_, _)
AnalyzeChunks(analysis, gws) ==
    IF gws = <<>> THEN Returned(analysis)
    ELSE Bind(AnalyzeChunk(analysis, Head(gws)),
              LAMBDA r : IF r.raised THEN r ELSE AnalyzeChunks(r.value, Tail(gws)))

\* analyze_vulnerabilities: one gateway call per chunk of the scenarios.
analyze_vulnerabilities(scenario_set, gws) ==
    AnalyzeChunks(EmptyAnalysis,
                  SubSeq(gws, 1, Len(chunk_large_content(scenario_set, DefaultMaxTokens))))

----------------------------------------------------------------------------
(* generate_report and run_stress_test *)

\* generate_report with a fault: a failed request is absorbed and a fixed
\* text returned.
generate_report_absorbing(gw) ==
    IF gw.kind = "content" THEN Returned(gw.text)
    ELSE Returned(<<"Report", " ", "unavailable">>)

\* Lines 339-344: nothing is caught here.
generate_report(gw) ==
    Bind(_make_request(gw),
         LAMBDA response :
             IF response.raised THEN response ELSE ResponseContent(response.value))

\* Lines 394-398: the loop that prints the scenarios enumerates every
\* category's value; a number cannot be enumerated (TypeError).
DisplayScenarios(scenario_set) ==
    IF \E i \in 1..Len(scenario_set.members) : scenario_set.members[i].val.t = "num"
    THEN Raised(<<"'int' object is not iterable">>)
    ELSE Returned(scenario_set)

\* Lines 391-398: stage 1 and the display of its result.
ScenariosStage(model, gw) ==
    Bind(generate_scenarios(model, gw),
         LAMBDA generated :
             IF generated.raised THEN generated ELSE DisplayScenarios(generated.value))

\* Lines 391-406 with the gateway's answers: script.s1 for stage 1,
\* script.s2 for the chunks, script.s3 for the report.
run_stress_test(model, script) ==
    Bind(ScenariosStage(model, script.s1),
         LAMBDA displayed :
             IF displayed.raised THEN displayed
             ELSE Bind(analyze_vulnerabilities(displayed.value, script.s2),
                       LAMBDA analysis :
                           IF analysis.raised THEN analysis
                           ELSE generate_report(script.s3)))

----------------------------------------------------------------------------
(* The variables of each part, and their values where a part is not run *)

jobVars == <<jobs, tasks, reports, poll, last_response, observed>>
runVars == <<business_model, scenarios, scenario_chunks, chunk_idx,
             combined_analysis, outcome, gateway_log>>
chunkVars == <<content, max_tokens, chunks>>
extractVars == <<embedded_object, response_text, extracted>>

NoPoll == [job |-> 0, status |-> ""]
NoResponse == [code |-> 0, job_id |-> 0, status |-> "", report_url |-> <<>>]
NoModel == [name |-> <<>>, industry |-> <<>>]
NoEmbedding == [prefix |-> <<>>, object |-> Obj(<<>>), layout |-> "", suffix |-> <<>>]

JobsIdle ==
    /\ jobs = <<>>
    /\ tasks = <<>>
    /\ reports = {}
    /\ poll = NoPoll
    /\ last_response = NoResponse
    /\ observed = <<>>

RunIdle ==
    /\ business_model = NoModel
    /\ scenarios = Obj(<<>>)
    /\ scenario_chunks = <<>>
    /\ chunk_idx = 0
    /\ combined_analysis = EmptyAnalysis
    /\ outcome = Returned(<<>>)
    /\ gateway_log = <<>>

ChunkIdle ==
    /\ content = Obj(<<>>)
    /\ max_tokens = DefaultMaxTokens
    /\ chunks = <<>>

ExtractIdle ==
    /\ embedded_object = NoEmbedding
    /\ response_text = <<>>
    /\ extracted = Returned(Obj(<<>>))

----------------------------------------------------------------------------
(* SpecChunk: chunk_large_content on every small mapping *)

MaxKeys == 3
MaxChars == 8
MaxUnits == 2

\* n copies of token c.
RECURSIVE Rep(_, _)
Rep(c, n) == IF n = 0 THEN <<>> ELSE <<c>> \o Rep(c, n - 1)

\* Values of every length up to MaxChars, and two lists.
ChunkValues ==
    {Str(Rep("a", n)) : n \in 0..MaxChars}
        \cup {Arr(<<Str(Rep("a", n))>>) : n \in {0, MaxChars}}

\* The mapping with keys k, kk, kkk, ... in this order and the given values.
ChunkMapping(values) ==
    Obj([i \in 1..Len(values) |-> [k |-> Rep("k", i), val |-> values[i]]])

ChunkInit ==
    /\ pc = "chunk_large_content"
    /\ \E n \in 0..MaxKeys : \E values \in [1..n -> ChunkValues] :
           content = ChunkMapping(values)
    /\ max_tokens \in 0..MaxUnits
    /\ chunks = <<>>
    /\ JobsIdle /\ RunIdle /\ ExtractIdle

ChunkContent ==
    /\ pc = "chunk_large_content"
    /\ chunks' = chunk_large_content(content, max_tokens)
    /\ pc' = "chunked"
    /\ UNCHANGED <<content, max_tokens, jobVars, runVars, extractVars>>

ChunkNext == ChunkContent

SpecChunk == ChunkInit /\ [][ChunkNext]_vars

\* C2: once chunk_large_content has returned, every key of the input is in
\* exactly one chunk, with the value the input gives it, no chunk holds a key
\* twice, and no chunk holds a key the input does not have.
C2_Partition ==
    pc = "chunked" =>
        /\ \A key \in Keys(content) :
               /\ Cardinality({i \in 1..Len(chunks) : key \in Keys(chunks[i])}) = 1
               /\ \A i \in 1..Len(chunks) :
                      key \in Keys(chunks[i]) => Get(chunks[i], key) = Get(content, key)
        /\ \A i \in 1..Len(chunks) :
               /\ Keys(chunks[i]) \subseteq Keys(content)
               /\ Len(chunks[i].members) = Cardinality(Keys(chunks[i]))

\* A mapping of three keys has been split into several chunks.
C2_Witness ==
    /\ pc = "chunked"
    /\ Len(content.members) = 3
    /\ Len(chunks) >= 2
    /\ \E i \in 1..Len(chunks) : Len(chunks[i].members) = 2

\* C3: a mapping with exactly one key, whose estimated size exceeds the
\* budget, comes back as exactly one chunk, which holds the key; no chunk is
\* empty.
C3_SingleOversizeKey ==
    (/\ pc = "chunked"
     /\ Len(content.members) = 1
     /\ StrLen(content.members[1].val) \div 4 > max_tokens)
        => /\ Len(chunks) = 1
           /\ content.members[1].k \in Keys(chunks[1])
           /\ \A i \in 1..Len(chunks) : chunks[i].members # <<>>

----------------------------------------------------------------------------
(* SpecExtract: extraction of a JSON object embedded in a response text *)

MaxStr == 2
MaxAffix == 1

\* All texts over an alphabet, up to a length.
TextsOver(alphabet, n) == UNION {[1..len -> alphabet] : len \in 0..n}

\* How a writer lays a JSON text out: the whitespace after an opening
\* bracket, after ':', after ',' and before a closing bracket.
Layouts == {"compact", "spaced", "indented"}

LayoutOf(name) ==
    IF name = "compact"
    THEN [open |-> <<>>, colon |-> <<>>, comma |-> <<>>, close |-> <<>>]
    ELSE IF name = "spaced"
    THEN [open |-> <<>>, colon |-> <<" ">>, comma |-> <<" ">>, close |-> <<>>]
    ELSE [open |-> <<"\n", " ", " ">>, colon |-> <<" ">>,
          comma |-> <<"\n", " ", " ">>, close |-> <<"\n">>]

\* json.dumps: the text of a value in a layout.
RECURSIVE Dumps(_, _), DumpsElements(_, _), DumpsMembers(_, _)
DumpsElements(a, lay) ==
    IF a = <<>> THEN <<>>
    ELSE Dumps(Head(a), lay)
         \o (IF Len(a) > 1 THEN <<",">> \o lay.comma ELSE <<>>)
         \o DumpsElements(Tail(a), lay)

DumpsMembers(m, lay) ==
    IF m = <<>> THEN <<>>
    ELSE <<"\"">> \o Head(m).k \o <<"\"", ":">> \o lay.colon \o Dumps(Head(m).val, lay)
         \o (IF Len(m) > 1 THEN <<",">> \o lay.comma ELSE <<>>)
         \o DumpsMembers(Tail(m), lay)

Dumps(value, lay) ==
    IF value.t = "str" THEN <<"\"">> \o value.v \o <<"\"">>
    ELSE IF value.t = "num" THEN value.v
    ELSE IF value.t = "arr"
         THEN IF value.items = <<>> THEN <<"[", "]">>
              ELSE <<"[">> \o lay.open \o DumpsElements(value.items, lay) \o lay.close \o <<"]">>
    ELSE IF value.members = <<>> THEN <<"{", "}">>
         ELSE <<"{">> \o lay.open \o DumpsMembers(value.members, lay) \o lay.close \o <<"}">>

\* What a JSON string may hold here: a letter, an apostrophe, a colon, a space.
StringTexts == TextsOver({"a", "'", ":", " "}, MaxStr)

\* Objects of one member (every string, a number, a list, a nested object)
\* and of two members.
EmbeddedObjects ==
    {Obj(<<[k |-> key, val |-> val]>>) :
        key \in {<<"k">>, <<"k", " ", "j">>},
        val \in {Str(t) : t \in StringTexts}
                \cup {Num(<<"1", "0">>), Arr(<<Str(<<"a">>), Num(<<"2">>)>>),
                      Obj(<<[k |-> <<"a">>, val |-> Str(<<"b">>)]>>)}}
    \cup {Obj(<<[k |-> <<"k">>, val |-> Str(t)], [k |-> <<"j">>, val |-> Num(<<"5">>)]>>) :
            t \in {<<"a">>, <<"a", "'", "s">>, <<"a", ":">>}}

\* The text around the object.
AffixTexts == TextsOver({"a", "{", "}"}, MaxAffix)

ExtractInit ==
    /\ pc = "extract"
    /\ embedded_object \in [prefix : AffixTexts, object : EmbeddedObjects,
                            layout : Layouts, suffix : AffixTexts]
    /\ response_text = embedded_object.prefix
                           \o Dumps(embedded_object.object, LayoutOf(embedded_object.layout))
                           \o embedded_object.suffix
    /\ extracted = Returned(Obj(<<>>))
    /\ JobsIdle /\ RunIdle /\ ChunkIdle

Extract ==
    /\ pc = "extract"
    /\ extracted' = ExtractJson(response_text)
    /\ pc' = "extracted"
    /\ UNCHANGED <<embedded_object, response_text, jobVars, runVars, chunkVars>>

ExtractNext == Extract

SpecExtract == ExtractInit /\ [][ExtractNext]_vars

RoundTrip == ~extracted.raised /\ extracted.value = embedded_object.object

\* C9: whatever the object and the text around it, extraction returns an
\* object equal to the embedded one.
C9_RoundTrip == pc = "extracted" => RoundTrip

----------------------------------------------------------------------------
(* SpecPipeline: one run of run_stress_test, a step per gateway call *)

Industries == {<<"Retail">>, <<"Health", " ", "Care">>}

\* What the model may answer the scenario prompt with.
ScenarioTexts == {
    \* one small category: one chunk
    <<"{", "\n", " ", " ", "\"", "a", "\"", ":", " ", "[", "\n", " ", " ",
      " ", " ", "\"", "Demand", " ", "drops", "\"", "\n", " ", " ", "]",
      "\n", "}">>,
    \* three categories of 751 units each, inside other text: three chunks
    <<"Sure", ".", "\n", "{", "\"", "a", "\"", ":", " ", "[", "\"", "x3000",
      "\"", "]", ",", " ", "\"", "b", "\"", ":", " ", "[", "\"", "x3000",
      "\"", "]", ",", " ", "\"", "c", "\"", ":", " ", "[", "\"", "x3000",
      "\"", "]", "}", "\n", "Done", ".">>,
    \* one category of 1501 units: an empty chunk, then the category
    <<"{", "\"", "a", "\"", ":", "[", "\"", "x6000", "\"", "]", "}">>,
    \* the empty object: no chunk
    <<"{", "}">>,
    \* a category whose value is a number
    <<"{", "\"", "a", "\"", ":", " ", "1", "}">>,
    \* free text with a category header and bullets, no JSON
    <<"Market", " ", "Conditions", "\n", "-", " ", "Demand", " ", "drops",
      "\n", "1", ".", " ", "Prices", " ", "rise">>,
    \* free text the line parser finds nothing in
    <<"Sorry", ",", " ", "no", " ", "scenarios">>,
    \* single quotes: a span that does not parse
    <<"{", "'", "a", "'", ":", " ", "[", "'", "s", "'", "]", "}">>,
    \* a header and a bullet, with a span that does not parse
    <<"Technology", " ", "Shifts", "\n", "*", " ", "{", "AI", "}">> }

ScenarioResponses ==
    {GatewayError("timeout"), NoChoices} \cup {Completion(t) : t \in ScenarioTexts}

\* What the model may answer an analysis prompt with.
AnalysisTexts == {
    \* category a, scenario s, and a summary
    <<"{", "\n", " ", "\"", "scenarios", "\"", ":", " ", "{", "\"", "a",
      "\"", ":", " ", "{", "\"", "s", "\"", ":", " ", "{", "\"", "impact",
      "\"", ":", " ", "\"", "High", "\"", "}", "}", "}", ",", "\n", " ",
      "\"", "chunk_summary", "\"", ":", " ", "\"", "r1", "\"", "\n", "}">>,
    \* the same category, another scenario, after other text
    <<"Analysis", "\n", "{", "\"", "scenarios", "\"", ":", " ", "{", "\"",
      "a", "\"", ":", " ", "{", "\"", "t", "\"", ":", " ", "{", "\"",
      "impact", "\"", ":", " ", "\"", "Low", "\"", "}", "}", "}", ",", " ",
      "\"", "chunk_summary", "\"", ":", " ", "\"", "r2", "\"", "}">>,
    \* another category, with single quotes and a bare key
    <<"{", "scenarios", ":", " ", "{", "'", "b", "'", ":", " ", "{", "}",
      "}", "}">>,
    \* a summary and no scenarios
    <<"{", "\"", "chunk_summary", "\"", ":", "\"", "r3", "\"", "}">>,
    \* "scenarios" is a number
    <<"{", "\"", "scenarios", "\"", ":", "1", "}">>,
    \* no JSON
    <<"Sorry">>,
    \* a span that does not parse after the repair
    <<"{", "\"", "scenarios", "\"", ":", "{", "\"", "a", "\"", ":", "\"",
      "it", "'", "s", "\"", "}", "}">> }

AnalysisResponses ==
    {GatewayError("timeout"), NoChoices} \cup {Completion(t) : t \in AnalysisTexts}

ReportResponses ==
    {GatewayError("timeout"), GatewayError("500 Server Error"), NoChoices,
     Completion(<<"Report", " ", "for", " ", "Acme">>), Completion(<<>>)}

PipelineInit ==
    /\ pc = "generate_scenarios"
    /\ business_model \in [name : {<<"Acme">>}, industry : Industries]
    /\ scenarios = Obj(<<>>)
    /\ scenario_chunks = <<>>
    /\ chunk_idx = 0
    /\ combined_analysis = EmptyAnalysis
    /\ outcome = Returned(<<>>)
    /\ gateway_log = <<>>
    /\ JobsIdle /\ ChunkIdle /\ ExtractIdle

\* Lines 391-401 up to the first analysis request: stage 1, the display of the
\* scenarios, and the chunking at the head of analyze_vulnerabilities (lines
\* 250-254).
GenerateScenarios ==
    /\ pc = "generate_scenarios"
    /\ \E gw \in ScenarioResponses :
        LET generated == generate_scenarios(business_model, gw)
            r == ScenariosStage(business_model, gw)
        IN  /\ gateway_log' = Append(gateway_log, gw)
            /\ IF r.raised
               THEN /\ pc' = "raised"
                    /\ outcome' = r
                    /\ scenarios' = IF generated.raised THEN scenarios ELSE generated.value
                    /\ UNCHANGED <<scenario_chunks, chunk_idx, combined_analysis>>
               ELSE /\ scenarios' = r.value
                    /\ scenario_chunks' = chunk_large_content(r.value, DefaultMaxTokens)
                    /\ chunk_idx' = 0
                    /\ combined_analysis' = EmptyAnalysis
                    /\ pc' = IF scenario_chunks' = <<>>
                             THEN "generate_report" ELSE "analyze_vulnerabilities"
                    /\ UNCHANGED outcome
    /\ UNCHANGED <<business_model, jobVars, chunkVars, extractVars>>

\* Lines 256-306 for the next chunk.
AnalyzeNextChunk ==
    /\ pc = "analyze_vulnerabilities"
    /\ \E gw \in AnalysisResponses :
        LET r == AnalyzeChunk(combined_analysis, gw)
        IN  /\ gateway_log' = Append(gateway_log, gw)
            /\ IF r.raised
               THEN /\ pc' = "raised"
                    /\ outcome' = r
                    /\ UNCHANGED <<chunk_idx, combined_analysis>>
               ELSE /\ combined_analysis' = r.value
                    /\ chunk_idx' = chunk_idx + 1
                    /\ pc' = IF chunk_idx' = Len(scenario_chunks)
                             THEN "generate_report" ELSE "analyze_vulnerabilities"
                    /\ UNCHANGED outcome
    /\ UNCHANGED <<business_model, scenarios, scenario_chunks, jobVars, chunkVars, extractVars>>

\* Lines 404-406.
GenerateReport ==
    /\ pc = "generate_report"
    /\ \E gw \in ReportResponses :
        /\ gateway_log' = Append(gateway_log, gw)
        /\ outcome' = generate_report(gw)
        /\ pc' = IF outcome'.raised THEN "raised" ELSE "returned"
    /\ UNCHANGED <<business_model, scenarios, scenario_chunks, chunk_idx,
                   combined_analysis, jobVars, chunkVars, extractVars>>

PipelineNext == GenerateScenarios \/ AnalyzeNextChunk \/ GenerateReport

SpecPipeline == PipelineInit /\ [][PipelineNext]_vars

----------------------------------------------------------------------------
(* Properties of one run *)

Terminal == pc \in {"returned", "raised"}

\* The answers to the analysis requests made so far.
AnalysisAnswers == SubSeq(gateway_log, 2, 1 + chunk_idx)

RecordedErrors ==
    IF "errors" \in DOMAIN combined_analysis THEN combined_analysis.errors ELSE <<>>

\* C4 as the specification states it: if every gateway call of a finished run
\* failed, the run returned a non-empty report and raised nothing.
C4_ReturnsReportWhenGatewayAlwaysFails ==
    (Terminal /\ \A i \in 1..Len(gateway_log) : gateway_log[i].kind = "error")
        => (pc = "returned" /\ outcome.value # <<>>)

\* C4, amended: if the scenario request and every analysis request of a
\* finished run failed, the run reached report synthesis with the fixed
\* structure of the except clause as its scenarios and an analysis that holds
\* one request error per fragment and nothing else; it returned the report
\* text verbatim if the report request was answered with content, and raised
\* the request's ValueError (or the missing-key error) if it was not.
C4_DegradesToReportSynthesis ==
    (/\ Terminal
     /\ gateway_log[1].kind = "error"
     /\ \A i \in 2..(Len(gateway_log) - 1) : gateway_log[i].kind = "error")
        => /\ scenarios = BasicScenarios
           /\ Len(gateway_log) = Len(scenario_chunks) + 2
           /\ combined_analysis.scenarios = <<>>
           /\ combined_analysis.summary = <<>>
           /\ RecordedErrors = [i \in 1..Len(scenario_chunks) |->
                                   RequestFailed(gateway_log[i + 1])]
           /\ LET last == gateway_log[Len(gateway_log)]
              IN  IF last.kind = "content"
                  THEN pc = "returned" /\ outcome = Returned(last.text)
                  ELSE IF last.kind = "error"
                  THEN pc = "raised" /\ outcome = Raised(RequestFailed(last))
                  ELSE pc = "raised" /\ outcome = Raised(<<"'choices'">>)

\* Every gateway call of the run failed, and the run raised.
C4_Witness ==
    /\ pc = "raised"
    /\ Len(gateway_log) = 3
    /\ \A i \in 1..3 : gateway_log[i].kind = "error"
    /\ scenarios = BasicScenarios
    /\ Len(RecordedErrors) = 1

\* C5: whatever fragments fail (request error, missing content, extraction
\* error, a "scenarios" value that cannot update a dict), the analysis holds
\* one message per failed fragment, in processing order, under "errors" (a key
\* present exactly when a fragment has failed); its "scenarios" has the
\* categories of the fragments that succeeded, each with the value of the last
\* fragment that gave it; no run ends inside stage 2, and a run that has
\* passed the display has asked for the report after all its fragments.
C5_PartialFailureAggregation ==
    \* alone[i]: what fragment i gives when it is analysed on its own
    /\ \A alone \in {[i \in 1..Len(AnalysisAnswers) |->
                         ChunkTry(EmptyAnalysis, AnalysisAnswers[i])]} :
       \A failed \in {{i \in DOMAIN alone : alone[i].raised}} :
       \A merged \in {Obj(combined_analysis.scenarios)} :
          /\ ("errors" \in DOMAIN combined_analysis) <=> (failed # {})
          /\ Len(RecordedErrors) = Cardinality(failed)
          /\ \A i \in failed :
                 RecordedErrors[Cardinality({h \in failed : h <= i})] = alone[i].error
          /\ Keys(merged) = UNION {Keys(Obj(alone[i].value.scenarios)) :
                                      i \in DOMAIN alone \ failed}
          /\ \A i \in DOMAIN alone \ failed :
             \A k \in Keys(Obj(alone[i].value.scenarios)) :
                 (\A h \in DOMAIN alone \ failed :
                      h > i => k \notin Keys(Obj(alone[h].value.scenarios)))
                 => Get(merged, k) = Get(Obj(alone[i].value.scenarios), k)
    /\ (Terminal /\ Len(gateway_log) > 1)
           => /\ chunk_idx = Len(scenario_chunks)
              /\ Len(gateway_log) = Len(scenario_chunks) + 2

\* Three fragments, two of which failed extraction: one category and two
\* messages, and the report was returned.
C5_Witness ==
    /\ pc = "returned"
    /\ Len(scenario_chunks) = 3
    /\ "errors" \in DOMAIN combined_analysis
    /\ Len(combined_analysis.errors) = 2
    /\ \A j \in 1..2 : combined_analysis.errors[j][1] \in
           {"No valid JSON found in response", "Invalid JSON response: "}
    /\ Len(combined_analysis.scenarios) = 1

\* C7: after stage 1 the scenarios are a mapping, and a finished run has
\* gone through every analysis request and the report request.
C7_StageOneNeverAborts ==
    /\ IsDict(scenarios)
    /\ Terminal => Len(gateway_log) = Len(scenario_chunks) + 2

\* The scenario text has no '{'...'}' span that json.loads accepts (lines 154-164).
StrictExtractionFails(text) ==
    ~(/\ Find(text, "{") >= 0
      /\ RFind(text, "}") + 1 > Find(text, "{")
      /\ json_loads(Strip(Slice(text, Find(text, "{"), RFind(text, "}") + 1))).ok)

\* C10: when the scenario request is answered with content whose strict
\* extraction fails, the scenarios are what the free-text parser finds in the
\* content, and the default structure for the model's industry only when it
\* finds nothing.
C10_FreeTextFallback ==
    (/\ pc # "generate_scenarios"
     /\ gateway_log # <<>>
     /\ gateway_log[1].kind = "content"
     /\ StrictExtractionFails(gateway_log[1].text))
        => LET parsed == _parse_scenarios_from_text(gateway_log[1].text)
           IN  scenarios = IF ~parsed.raised /\ parsed.value.members # <<>>
                           THEN parsed.value
                           ELSE DefaultScenarios(business_model.industry)

\* C11: when the scenario request fails, the scenarios are the default
\* structure templated with the model's industry, the one an answer without
\* usable JSON gets.
C11_GatewayFailureDefault ==
    (/\ pc # "generate_scenarios"
     /\ gateway_log # <<>>
     /\ gateway_log[1].kind = "error")
        => scenarios = DefaultScenarios(business_model.industry)

\* The entries fragment i of a run contributes under category c, when it is
\* analysed on its own: a dict of scenario keys, or nothing.
EntriesOf(alone, i, c) ==
    IF ~alone[i].raised /\ HasKey(Obj(alone[i].value.scenarios), c)
    THEN Get(Obj(alone[i].value.scenarios), c)
    ELSE Obj(<<>>)

\* C12: an entry (category c, scenario s) a fragment contributed is in the
\* combined "scenarios", with its value, as long as no later fragment
\* contributed an entry with the same category and the same scenario key.
C12_MergeKeepsEarlierEntries ==
    \A alone \in {[i \in 1..Len(AnalysisAnswers) |->
                      ChunkTry(EmptyAnalysis, AnalysisAnswers[i])]} :
    \A merged \in {Obj(combined_analysis.scenarios)} :
    \A i \in DOMAIN alone :
    \A c \in Keys(Obj(IF alone[i].raised THEN <<>> ELSE alone[i].value.scenarios)) :
    \A entries \in {EntriesOf(alone, i, c)} :
        IsDict(entries) =>
            \A s \in Keys(entries) :
                (\A h \in DOMAIN alone :
                     h > i => /\ IsDict(EntriesOf(alone, h, c))
                              /\ s \notin Keys(EntriesOf(alone, h, c)))
                    => /\ HasKey(merged, c)
                       /\ IsDict(Get(merged, c))
                       /\ HasKey(Get(merged, c), s)
                       /\ Get(Get(merged, c), s) = Get(entries, s)

----------------------------------------------------------------------------
(* api.py: the job store, its two endpoints and the background task *)

MaxJobs == 2

\* str(uuid.uuid4()): an id no job has (a collision of two uuids is left out).
JobIds == 1..MaxJobs

\* datetime.now().isoformat() and .strftime("%Y%m%d_%H%M%S"): the clock is
\* not modelled, every reading gives the same token.
IsoTimestamp == <<"ISO_TIMESTAMP">>
FileTimestamp == "YYYYmmdd_HHMMSS"

\* str.lower() of a token of the names submitted.
LowerCase(t) ==
    IF t = "Beta" THEN "beta" ELSE IF t = "Co" THEN "co" ELSE t

\* Lines 108-109: reports/<name, lowered, '_' for ' '>_<timestamp>.md
ReportFilename(model) ==
    <<"reports", "/">>
    \o [i \in 1..Len(model.name) |->
           IF model.name[i] = " " THEN "_" ELSE LowerCase(model.name[i])]
    \o <<"_", FileTimestamp, ".", "md">>

\* os.path.basename(path)
Basename(path) == Slice(path, RFind(path, "/") + 1, Len(path))

\* d.update(u)
DictUpdate(d, u) == [k \in DOMAIN d \cup DOMAIN u |-> IF k \in DOMAIN u THEN u[k] ELSE d[k]]

\* Line 73: the record of a job just submitted.
PendingJob == [status |-> "pending", started_at |-> IsoTimestamp]

\* Lines 114-118.
CompletedUpdate(filename) ==
    [status |-> "completed",
     report_url |-> <<"/", "reports", "/">> \o Basename(filename),
     completed_at |-> IsoTimestamp]

\* FailedUpdate with a fault: the status is left as it was.
FailedUpdateKeepsStatus(e) == [error |-> e, failed_at |-> IsoTimestamp]

\* Lines 121-125: str(e) goes under "error".
FailedUpdate(e) == [status |-> "failed", error |-> e, failed_at |-> IsoTimestamp]

\* What os.makedirs, open or write raises when the file cannot be written.
WriteError(filename) == <<"[Errno 13] Permission denied: ", "'">> \o filename \o <<"'">>

\* run_analysis (lines 96-125) on the job's record: the record after the
\* update, the files written, and what run_stress_test gave.  script is what
\* the gateway answers during the run, writable whether the report file can
\* be written.
run_analysis(job, model, script, writable) ==
    Bind(run_stress_test(model, script),
         LAMBDA report :
             IF report.raised
             THEN [job |-> DictUpdate(job, FailedUpdate(report.error)),
                   files |-> {}, result |-> report]
             ELSE IF ~writable
             THEN [job |-> DictUpdate(job, FailedUpdate(WriteError(ReportFilename(model)))),
                   files |-> {}, result |-> report]
             ELSE [job |-> DictUpdate(job, CompletedUpdate(ReportFilename(model))),
                   files |-> {ReportFilename(model)}, result |-> report])

\* The models submitted.
SubmittedModels == [name : {<<"Beta", " ", "Co">>}, industry : {<<"Retail">>}]

\* What the gateway answers during one run: the scenario request fails, or
\* is answered with one category or with a number for a category; the
\* analysis request of the one fragment fails or is answered with a summary;
\* the report request fails or is answered with the report.
Scripts ==
    [s1 : {GatewayError("timeout"),
           Completion(<<"{", "\"", "a", "\"", ":", " ", "[", "\"", "Demand", " ",
                        "drops", "\"", "]", "}">>),
           Completion(<<"{", "\"", "a", "\"", ":", " ", "1", "}">>)},
     s2 : {<<GatewayError("timeout")>>,
           <<Completion(<<"{", "\"", "chunk_summary", "\"", ":", "\"", "r3", "\"", "}">>)>>},
     s3 : {GatewayError("timeout"), Completion(<<"Report", " ", "for", " ", "Beta", " ", "Co">>)}]

\* Line 75: the task add_task queues, before it has run.  Once it has run,
\* the task keeps what the report request was answered with, whether the
\* file was written, and what run_stress_test gave.
QueuedTask(model) ==
    [state |-> "queued", business_model |-> model, report_answer |-> NoChoices,
     written |-> FALSE, result |-> Returned(<<>>)]

Init ==
    /\ pc = "serving"
    /\ JobsIdle /\ RunIdle /\ ChunkIdle /\ ExtractIdle

\* POST /analyze, lines 63-80.  The handlers are coroutines of one event loop
\* and do not await: one does not start inside another.
analyze_business_model(job_id, model) ==
    /\ pc = "serving"
    /\ poll = NoPoll
    /\ job_id \notin DOMAIN jobs
    /\ jobs' = [j \in DOMAIN jobs \cup {job_id} |->
                   IF j = job_id THEN PendingJob ELSE jobs[j]]
    /\ tasks' = [j \in DOMAIN tasks \cup {job_id} |->
                    IF j = job_id THEN QueuedTask(model) ELSE tasks[j]]
    /\ observed' = [j \in DOMAIN observed \cup {job_id} |->
                       IF j = job_id THEN "" ELSE observed[j]]
    /\ last_response' = [code |-> 200, job_id |-> job_id, status |-> "pending",
                         report_url |-> <<>>]
    /\ UNCHANGED <<reports, poll, pc, runVars, chunkVars, extractVars>>

\* RunsOnce with a fault: a task that has run is run again.
RunsAgain(job_id) == job_id \in DOMAIN tasks

\* Line 75: a task added to the background tasks runs once.
RunsOnce(job_id) == job_id \in DOMAIN tasks /\ tasks[job_id].state = "queued"

\* WriteRecord with a fault: the records of all jobs are one shared dict, so
\* the update shows in every job.
WriteRecordShared(store, job_id, record) == [j \in DOMAIN store |-> record]

\* jobs[job_id].update(...), lines 114 and 121: the update lands in the
\* record of job_id, a dict of its own created at line 73.
WriteRecord(store, job_id, record) == [store EXCEPT ![job_id] = record]

\* The background task of a job, lines 96-125, in a worker thread.  Its one
\* access to jobs is the update at its end, so it is one step.
RunAnalysis(job_id) ==
    /\ pc = "serving"
    /\ RunsOnce(job_id)
    /\ \E script \in Scripts, writable \in BOOLEAN :
       \E done \in {run_analysis(jobs[job_id], tasks[job_id].business_model,
                                 script, writable)} :
          /\ jobs' = WriteRecord(jobs, job_id, done.job)
          /\ reports' = reports \cup done.files
          /\ tasks' = [tasks EXCEPT ![job_id] =
                          [state |-> "done", business_model |-> @.business_model,
                           report_answer |-> script.s3, written |-> done.files # {},
                           result |-> done.result]]
    /\ last_response' = NoResponse
    /\ UNCHANGED <<poll, observed, pc, runVars, chunkVars, extractVars>>

\* GET /status/{job_id}, lines 87-88: no such job.
GetStatusNotFound(job_id) ==
    /\ pc = "serving"
    /\ poll = NoPoll
    /\ job_id \notin DOMAIN jobs
    /\ last_response' = [code |-> 404, job_id |-> job_id, status |-> "",
                         report_url |-> <<>>]
    /\ UNCHANGED <<jobs, tasks, reports, poll, observed, pc, runVars, chunkVars,
                   extractVars>>

\* GET /status/{job_id}, line 92: jobs[job_id]["status"] is read.
GetStatusReadStatus(job_id) ==
    /\ pc = "serving"
    /\ poll = NoPoll
    /\ job_id \in DOMAIN jobs
    /\ poll' = [job |-> job_id, status |-> jobs[job_id].status]
    /\ last_response' = NoResponse
    /\ UNCHANGED <<jobs, tasks, reports, observed, pc, runVars, chunkVars, extractVars>>

\* GET /status/{job_id}, lines 90-94: jobs[job_id].get("report_url") is read
\* and the response returned.  An absent report_url (None) is <<>>.
GetStatusRespond ==
    /\ pc = "serving"
    /\ poll # NoPoll
    /\ last_response' =
           [code |-> 200, job_id |-> poll.job, status |-> poll.status,
            report_url |-> IF "report_url" \in DOMAIN jobs[poll.job]
                           THEN jobs[poll.job].report_url ELSE <<>>]
    /\ observed' = [observed EXCEPT ![poll.job] = poll.status]
    /\ poll' = NoPoll
    /\ UNCHANGED <<jobs, tasks, reports, pc, runVars, chunkVars, extractVars>>

Next ==
    \/ \E job_id \in JobIds, model \in SubmittedModels : analyze_business_model(job_id, model)
    \/ \E job_id \in JobIds : RunAnalysis(job_id)
    \/ \E job_id \in JobIds : GetStatusNotFound(job_id)
    \/ \E job_id \in JobIds : GetStatusReadStatus(job_id)
    \/ GetStatusRespond

Spec == Init /\ [][Next]_vars

----------------------------------------------------------------------------
(* Properties of the job store *)

TerminalStatus == {"completed", "failed"}

\* C1: a job is never removed; it starts "pending"; its status changes only
\* from "pending", and only to "completed" or "failed"; a poll reads the
\* status the job has, so the status polls of a job return is "pending" up to
\* the transition and, once a poll has returned a terminal value, that same
\* value, which is the job's.
C1_JobLifecycle ==
    [][/\ DOMAIN jobs \subseteq DOMAIN jobs'
       /\ \A j \in DOMAIN jobs' \ DOMAIN jobs : jobs'[j].status = "pending"
       /\ \A j \in DOMAIN jobs :
              jobs'[j].status # jobs[j].status
                  => jobs[j].status = "pending" /\ jobs'[j].status \in TerminalStatus
       /\ poll' # NoPoll => poll'.status \in {"pending", jobs'[poll'.job].status}
       /\ \A j \in DOMAIN observed :
              /\ observed[j] \in TerminalStatus => observed'[j] = observed[j]
              /\ observed'[j] \in TerminalStatus => observed'[j] = jobs'[j].status
              /\ observed'[j] # observed[j]
                     => /\ last_response'.code = 200
                        /\ last_response'.job_id = j
                        /\ last_response'.status = observed'[j]
      ]_vars

\* A job has failed and a poll has returned "failed" for it.
C1_Witness ==
    \E j \in DOMAIN jobs :
        /\ jobs[j].status = "failed"
        /\ observed[j] = "failed"
        /\ last_response = [code |-> 200, job_id |-> j, status |-> "failed",
                            report_url |-> <<>>]

\* C6: once the background task of a job has run, the job is "completed" or
\* "failed".  If the report request failed, run_stress_test raised, and what
\* it raised is the request's error unless the run ended before the request.
\* If run_stress_test raised, or the report file could not be written, the job
\* is "failed" with the exception's message under "error", has "failed_at",
\* and has neither "report_url" nor "completed_at".
C6_FatalStageRecorded ==
    \A j \in DOMAIN tasks :
        tasks[j].state = "done"
        => /\ jobs[j].status \in TerminalStatus
           /\ tasks[j].report_answer.kind = "error"
                  => /\ tasks[j].result.raised
                     /\ \/ tasks[j].result.error = RequestFailed(tasks[j].report_answer)
                        \/ tasks[j].result.error = <<"'int' object is not iterable">>
           /\ (tasks[j].result.raised \/ ~tasks[j].written)
                  => /\ jobs[j].status = "failed"
                     /\ DOMAIN jobs[j] = {"status", "started_at", "error", "failed_at"}
                     /\ jobs[j].failed_at = IsoTimestamp
                     /\ jobs[j].error =
                            IF tasks[j].result.raised THEN tasks[j].result.error
                            ELSE WriteError(ReportFilename(tasks[j].business_model))

\* The report request of a job's run failed, and the job is "failed" with the
\* request's error.
C6_Witness ==
    \E j \in DOMAIN tasks :
        /\ tasks[j].state = "done"
        /\ tasks[j].report_answer.kind = "error"
        /\ tasks[j].result = Raised(RequestFailed(tasks[j].report_answer))
        /\ jobs[j].status = "failed"
        /\ jobs[j].error = <<"OpenRouter API request failed: ", "timeout">>

\* C8: the response of the status endpoint for a failed job carries the
\* error recorded for the job.
C8_FailedStatusCarriesError ==
    (last_response.code = 200 /\ last_response.status = "failed")
        => /\ "error" \in DOMAIN last_response
           /\ last_response.error = jobs[last_response.job_id].error

\* C13: job ids are distinct (a submission adds a record under an id no job
\* has, and answers with that id); a job is never removed and has one
\* background task; a step that adds a job leaves every other record as it
\* was; a record changes only once, from "pending" to a terminal status, in
\* the step in which its own task runs, and that step leaves every other
\* job's record and task as they were; a task that has run does not run again.
C13_JobIsolation ==
    [][/\ DOMAIN jobs \subseteq DOMAIN jobs'
       /\ DOMAIN tasks' = DOMAIN jobs'
       /\ \A j \in DOMAIN jobs' \ DOMAIN jobs :
              /\ jobs'[j] = PendingJob
              /\ tasks'[j].state = "queued"
              /\ last_response' = [code |-> 200, job_id |-> j, status |-> "pending",
                                   report_url |-> <<>>]
              /\ \A k \in DOMAIN jobs : jobs'[k] = jobs[k] /\ tasks'[k] = tasks[k]
       /\ \A j \in DOMAIN jobs :
              /\ tasks[j].state = "done" => tasks'[j] = tasks[j]
              /\ (jobs'[j] # jobs[j] \/ tasks'[j] # tasks[j])
                     => /\ jobs[j].status = "pending"
                        /\ jobs'[j].status \in TerminalStatus
                        /\ tasks[j].state = "queued"
                        /\ tasks'[j].state = "done"
                        /\ \A k \in DOMAIN jobs \ {j} :
                               jobs'[k] = jobs[k] /\ tasks'[k] = tasks[k]
      ]_vars

\* Two jobs have been submitted and both tasks have run: one job is
\* "completed" with its report, the other "failed" with its error.
C13_Witness ==
    /\ Cardinality(DOMAIN jobs) >= 2
    /\ \E j, k \in DOMAIN jobs :
           /\ j # k
           /\ tasks[j].state = "done" /\ tasks[k].state = "done"
           /\ jobs[j].status = "completed" /\ "report_url" \in DOMAIN jobs[j]
           /\ jobs[k].status = "failed" /\ "error" \in DOMAIN jobs[k]
           /\ "error" \notin DOMAIN jobs[j]

============================================================================
